---- MODULE Spec2Model ----
(***************************************************************************)
(* Multi-Agent Consensus Engine (class MultiAgentConsensus,                *)
(* src/src/lib/agents/base-agent.ts lines 822-1718).                       *)
(*                                                                         *)
(* Numbers.  The code computes with IEEE doubles.  The model computes with *)
(* exact rationals [num, den] (den > 0) and a NaN value for 0/0.  Detector *)
(* confidences and uncertainties are percentages (90 stands for 0.90).     *)
(*                                                                         *)
(* Asynchrony.  evaluateWithConsensus has a single suspension point, the   *)
(* await of runAgentEvaluations.  Everything before it (quality check,     *)
(* launching the detectors) is one action, every continuation of an await  *)
(* is one action, and the settling of a detector's promise or the firing   *)
(* of its timer is an action of the environment.                           *)
(*                                                                         *)
(* Specifications.  Spec: one evaluation on an engine with any of the      *)
(* detector setups, registries and execution modes.  SpecConfig: one       *)
(* evaluation on an engine built from constructor arguments and priorities *)
(* that are out of range.  SpecRoute: one evaluation on the engine of      *)
(* api/consensus/route.ts.  SpecConcurrent: several calls in progress at   *)
(* once on one engine.  SpecFair: one evaluation under the scheduling of   *)
(* the event loop (weak fairness of timers and continuations).             *)
(* SpecQuality: the quality gate over every snapshot.  SpecThreshold:      *)
(* engines over the range of confidenceThreshold.  SpecRegister:           *)
(* registerAgent and removeAgent.  SpecService: the subscription handlers  *)
(* of the real-time service (src/unnamed/part_007).                        *)
(***************************************************************************)
EXTENDS Integers, Sequences, FiniteSets, TLC

(***************************************************************************)
(* Numbers                                                                 *)
(***************************************************************************)
Rat(n, d) == [nan |-> FALSE, num |-> n, den |-> d]

NaN == [nan |-> TRUE, num |-> 0, den |-> 1]

Zero == Rat(0, 1)

\* JavaScript n / d for n >= 0, d >= 0 as they occur here: 0 / 0 is NaN.
Div(n, d) == IF d = 0 THEN NaN ELSE Rat(n, d)

\* a >= p/100; every comparison with NaN is false
GeqPercent(a, p) == (~a.nan) /\ a.num * 100 >= p * a.den

\* a > p/100
GtPercent(a, p) == (~a.nan) /\ a.num * 100 > p * a.den

NumEq(a, b) == IF a.nan \/ b.nan THEN a.nan /\ b.nan ELSE a.num * b.den = b.num * a.den

(***************************************************************************)
(* Detectors (BaseAgent) and their results (AgentResult)                   *)
(***************************************************************************)
Grav == "GravimetricDecompositionAgent"

Spectral == "SpectralEvolutionAgent"

Quantum == "QuantumInversionAgent"

Seepage == "SeepageDetectionAgent"

AgentPool == {Grav, Spectral, Quantum, Seepage}

Agent(n, p) == [name |-> n, priority |-> p]

\* The contents of this.agents (a Map, in insertion order) once the owner of
\* the engine has registered its detectors: none, the three detectors of
\* api/consensus/route.ts, or two pluggable detectors one of which has
\* priority 0.
AgentSetups ==
  { << >>,
    << Agent(Grav, 2), Agent(Spectral, 2), Agent(Quantum, 3) >>,
    << Agent(Seepage, 0), Agent(Grav, 2) >> }

\* agentName.toLowerCase().includes(sub) for the names of AgentPool
NameIncludes(n, sub) ==
  \/ sub = "grav" /\ n = Grav
  \/ sub = "spectral" /\ n = Spectral
  \/ sub = "seepage" /\ n = Seepage

NullData == [isNull |-> TRUE, short_wavelength_anomaly |-> FALSE,
             alteration_detected |-> FALSE, hasCoherence |-> FALSE, coherence_score |-> 0]

Data(swa, alt) == [isNull |-> FALSE, short_wavelength_anomaly |-> swa,
                   alteration_detected |-> alt, hasCoherence |-> FALSE, coherence_score |-> 0]

NoPhysics == [present |-> FALSE, passesPhysics |-> TRUE, residualScore |-> 0]

\* residualScore in hundredths
Physics(passes, residual) == [present |-> TRUE, passesPhysics |-> passes, residualScore |-> residual]

Output(det, conf, unc, data, phys, method) ==
  [detection |-> det, confidence |-> conf, uncertainty |-> unc, data |-> data,
   physicsValidation |-> phys, method |-> method]

\* What a detector may answer: a clean strong detection, a weak detection
\* with a short-wavelength signal and a passing physics report, a
\* non-detection reporting alteration, and a detection whose physics report
\* fails with residual 1.2.
AgentOutputs ==
  { Output(TRUE, 90, 0, NullData, NoPhysics, "detector"),
    Output(TRUE, 40, 50, Data(TRUE, FALSE), Physics(TRUE, 50), "detector"),
    Output(FALSE, 30, 20, Data(FALSE, TRUE), NoPhysics, "detector"),
    Output(TRUE, 85, 10, NullData, Physics(FALSE, 120), "detector") }

AgentResultOf(n, o) ==
  [agentName |-> n, detection |-> o.detection, confidence |-> o.confidence,
   uncertainty |-> o.uncertainty, data |-> o.data,
   physicsValidation |-> o.physicsValidation, method |-> o.method]

\* The result runAgentEvaluations substitutes in its catch blocks.
FailedResult(n) ==
  [agentName |-> n, detection |-> FALSE, confidence |-> 0, uncertainty |-> 100,
   data |-> NullData, physicsValidation |-> NoPhysics, method |-> "failed"]

NoValue == FailedResult("none")

EmptyMap == [n \in {} |-> NoValue]

Names(ags) == { ags[i].name : i \in 1..Len(ags) }

IsRegistered(ags, n) == n \in Names(ags)

\* this.agents.get(n).getMetadata().priority
PriorityOf(ags, n) == ags[CHOOSE i \in 1..Len(ags) : ags[i].name = n].priority

RECURSIVE SumOver(_, _)
SumOver(f, S) ==
  IF S = {} THEN 0
  ELSE LET x == CHOOSE y \in S : TRUE IN f[x] + SumOver(f, S \ {x})

(***************************************************************************)
(* Inputs of an evaluation: the candidate and the data snapshot            *)
(***************************************************************************)
Candidate(res, geo) == [targetResource |-> res, geologicalContext |-> geo]

Candidates == { Candidate("gold", "craton"), Candidate("gold", "basin") }

\* SatelliteData: which of the optional channels the quality helpers read
\* are present and truthy.
Snapshot(opt, s2, s1, lt, srtm) ==
  [optical |-> opt, sentinel2 |-> s2, sentinel1 |-> s1, landsatThermal |-> lt, srtm |-> srtm]

\* The value of satelliteData before the first call
NoSnapshot == Snapshot(FALSE, FALSE, FALSE, FALSE, FALSE)

Snapshots ==
  { Snapshot(FALSE, FALSE, FALSE, FALSE, FALSE),
    Snapshot(TRUE, FALSE, FALSE, FALSE, FALSE),
    Snapshot(TRUE, FALSE, FALSE, TRUE, FALSE) }

(***************************************************************************)
(* Phase 1: quality gate.  Sub-scores are percentages, the overall score   *)
(* is in 1/10000.                                                          *)
(***************************************************************************)
Min(a, b) == IF a <= b THEN a ELSE b

assessTemporalCoverage(d) ==
  Min(100, 50 + (IF d.optical /\ d.sentinel2 THEN 20 ELSE 0)
              + (IF d.sentinel1 THEN 20 ELSE 0)
              + (IF d.landsatThermal THEN 10 ELSE 0))

\* a cloud assessment that does not look at the snapshot
assessCloudCoverAlwaysCloudy(d) == 85

assessCloudCover(d) == IF d.optical THEN 85 ELSE 100

assessResolutionCompatibility(d) ==
  LET has10m == (d.optical /\ d.sentinel2) \/ d.sentinel1
      has30m == d.landsatThermal \/ d.srtm
  IN IF has10m /\ has30m THEN 90 ELSE 60

assessRadiometricConsistency(d) == 90

QualityPassBar == 7500

performDataQualityCheck(d) ==
  LET temporalScore == assessTemporalCoverage(d)
      cloudScore == assessCloudCover(d)
      resolutionScore == assessResolutionCompatibility(d)
      radiometricScore == assessRadiometricConsistency(d)
      overallScore == temporalScore * 20 + cloudScore * 30
                      + resolutionScore * 25 + radiometricScore * 25
      issues == (IF temporalScore < 70 THEN {"Insufficient temporal coverage"} ELSE {})
                \cup (IF cloudScore < 80 THEN {"High cloud contamination in optical data"} ELSE {})
                \cup (IF resolutionScore < 60 THEN {"Incompatible resolutions across sensors"} ELSE {})
                \cup (IF radiometricScore < 90 THEN {"Radiometric inconsistencies detected"} ELSE {})
  IN [present |-> TRUE, overallQualityScore |-> overallScore, issues |-> issues,
      pass |-> overallScore >= QualityPassBar]

NoQualityReport == [present |-> FALSE, overallQualityScore |-> 0, issues |-> {}, pass |-> FALSE]

(***************************************************************************)
(* Phase 3: consensus metrics                                              *)
(***************************************************************************)
calculatePairwiseAgreements(ar) ==
  Cardinality({ pr \in SUBSET (DOMAIN ar) :
                  /\ Cardinality(pr) = 2
                  /\ \A a, b \in pr : ar[a].detection = ar[b].detection })

calculateConsensusMetrics(ags, ar) ==
  LET names == DOMAIN ar
      detectionCount == Cardinality({ n \in names : ar[n].detection })
      totalCount == Cardinality(names)
      agentWeights == [n \in names |-> IF IsRegistered(ags, n) THEN PriorityOf(ags, n) ELSE 1]
      weightedSum == SumOver([n \in names |->
                         IF ar[n].detection THEN ar[n].confidence * agentWeights[n] ELSE 0], names)
      totalWeight == SumOver(agentWeights, names)
      agreements == calculatePairwiseAgreements(ar)
  IN [rawConsensus |-> Div(detectionCount, totalCount),
      weightedConsensus |-> IF totalWeight > 0 THEN Rat(weightedSum, 100 * totalWeight) ELSE Zero,
      agreementRatio |-> Div(agreements, (totalCount * (totalCount - 1)) \div 2),
      detectionCount |-> detectionCount,
      totalCount |-> totalCount,
      agentWeights |-> agentWeights]

(***************************************************************************)
(* Phase 6: confidence fusion                                              *)
(***************************************************************************)
\* agentWeights?.[agentName] || 1 : a missing table, a missing entry and
\* the falsy weight 0 all give 1.
WeightOrOne(hasWeights, agentWeights, n) ==
  IF hasWeights /\ n \in DOMAIN agentWeights /\ agentWeights[n] # 0 THEN agentWeights[n] ELSE 1

\* a fusion that divides by the number of results instead of the total weight
calculateWeightedConfidenceByCount(ar, hasWeights, agentWeights) ==
  LET names == DOMAIN ar
      w == [n \in names |-> WeightOrOne(hasWeights, agentWeights, n)]
      weightedSum == SumOver([n \in names |->
                        (IF ar[n].detection THEN ar[n].confidence ELSE 0)
                        * (100 - ar[n].uncertainty) * w[n]], names)
  IN IF Cardinality(names) > 0 THEN Rat(weightedSum, 10000 * Cardinality(names)) ELSE Zero

\* a fusion that adds the confidence of every result, detecting or not
calculateWeightedConfidenceAllResults(ar, hasWeights, agentWeights) ==
  LET names == DOMAIN ar
      w == [n \in names |-> WeightOrOne(hasWeights, agentWeights, n)]
      weightedSum == SumOver([n \in names |->
                        ar[n].confidence * (100 - ar[n].uncertainty) * w[n]], names)
      totalWeight == SumOver(w, names)
  IN IF totalWeight > 0 THEN Rat(weightedSum, 10000 * totalWeight) ELSE Zero

calculateWeightedConfidence(ar, hasWeights, agentWeights) ==
  LET names == DOMAIN ar
      w == [n \in names |-> WeightOrOne(hasWeights, agentWeights, n)]
      weightedSum == SumOver([n \in names |->
                        (IF ar[n].detection THEN ar[n].confidence ELSE 0)
                        * (100 - ar[n].uncertainty) * w[n]], names)
      totalWeight == SumOver(w, names)
  IN IF totalWeight > 0 THEN Rat(weightedSum, 10000 * totalWeight) ELSE Zero

(***************************************************************************)
(* Phase 4: veto rules                                                     *)
(***************************************************************************)
VetoCondition(primary, secondary, reason, agent) ==
  [primaryCondition |-> primary, secondaryCondition |-> secondary,
   vetoReason |-> reason, vetoingAgent |-> agent]

\* secondaryCondition "" stands for an absent secondary condition
\* the rule list with the residual rule moved in front of the
\* physics-violation rule
vetoConditionsResidualFirst ==
  << VetoCondition("seepage_detected", "no_trap_detected",
       "Surface seepage without subsurface trap violates causal consistency",
       "StructuralContextAgent"),
     VetoCondition("short_wavelength_high", "no_spectral_alteration",
       "High-frequency gravity anomaly without mineral alteration",
       "SpectralEvolutionAgent"),
     VetoCondition("physics_residual_high", "",
       "Model violates physical laws at this location",
       "QuantumInversionAgent"),
     VetoCondition("temporal_coherence_below_threshold", "",
       "Signal lacks multi-year persistence required for valid detection",
       "TemporalCoherenceAgent"),
     VetoCondition("physics_violation", "",
       "Anomaly violates physics constraints for this geological province",
       "PhysicsValidationAgent") >>

vetoConditions ==
  << VetoCondition("seepage_detected", "no_trap_detected",
       "Surface seepage without subsurface trap violates causal consistency",
       "StructuralContextAgent"),
     VetoCondition("short_wavelength_high", "no_spectral_alteration",
       "High-frequency gravity anomaly without mineral alteration",
       "SpectralEvolutionAgent"),
     VetoCondition("physics_violation", "",
       "Anomaly violates physics constraints for this geological province",
       "PhysicsValidationAgent"),
     VetoCondition("temporal_coherence_below_threshold", "",
       "Signal lacks multi-year persistence required for valid detection",
       "TemporalCoherenceAgent"),
     VetoCondition("physics_residual_high", "",
       "Model violates physical laws at this location",
       "QuantumInversionAgent") >>

\* conditionChecks[c]?.(results); r is the set of values of agentResults
conditionChecks(c, r) ==
  CASE c = "seepage_detected" ->
         \E x \in r : NameIncludes(x.agentName, "seepage") /\ x.detection
    [] c = "no_trap_detected" ->
         \A x \in r : ~NameIncludes(x.agentName, "trap") \/ ~x.detection
    [] c = "short_wavelength_high" ->
         \E x \in r : NameIncludes(x.agentName, "grav")
                       /\ ~x.data.isNull /\ x.data.short_wavelength_anomaly
    [] c = "no_spectral_alteration" ->
         \A x \in r : ~NameIncludes(x.agentName, "spectral")
                       \/ ~(~x.data.isNull /\ x.data.alteration_detected)
    [] c = "temporal_coherence_below_threshold" ->
         \E x \in r : NameIncludes(x.agentName, "temporal")
                       /\ ~x.data.isNull /\ x.data.hasCoherence /\ x.data.coherence_score < 70
    [] c = "physics_violation" ->
         \E x \in r : x.physicsValidation.present /\ ~x.physicsValidation.passesPhysics
    [] c = "physics_residual_high" ->
         \E x \in r : x.physicsValidation.present /\ x.physicsValidation.residualScore > 100
    [] OTHER -> FALSE

checkVetoCondition(ar, condition) ==
  LET results == { ar[n] : n \in DOMAIN ar }
  IN IF ~conditionChecks(condition.primaryCondition, results) THEN FALSE
     ELSE IF condition.secondaryCondition # ""
             /\ ~conditionChecks(condition.secondaryCondition, results) THEN FALSE
     ELSE TRUE

NoVeto == [present |-> FALSE, vetoed |-> FALSE, vetoingAgent |-> "", vetoReason |-> ""]

NotVetoed == [present |-> TRUE, vetoed |-> FALSE, vetoingAgent |-> "", vetoReason |-> ""]

\* applyVetoLogic with the return placed so that only the first rule of the
\* list is ever examined
applyVetoLogicFirstRuleOnly(cfg, ar) ==
  IF cfg.vetoEnabled /\ checkVetoCondition(ar, vetoConditions[1])
  THEN [present |-> TRUE, vetoed |-> TRUE,
        vetoingAgent |-> vetoConditions[1].vetoingAgent,
        vetoReason |-> vetoConditions[1].vetoReason]
  ELSE NotVetoed

\* applyVetoLogic with a loop that keeps overwriting its answer, so that the
\* last rule that fires is the one recorded
applyVetoLogicLastRuleWins(cfg, ar) ==
  IF ~cfg.vetoEnabled THEN NotVetoed
  ELSE LET firing == { i \in 1..Len(vetoConditions) : checkVetoCondition(ar, vetoConditions[i]) }
       IN IF firing = {} THEN NotVetoed
          ELSE LET last == CHOOSE i \in firing : \A j \in firing : i >= j
               IN [present |-> TRUE, vetoed |-> TRUE,
                   vetoingAgent |-> vetoConditions[last].vetoingAgent,
                   vetoReason |-> vetoConditions[last].vetoReason]

\* applyVetoLogic without the early return on a disabled veto
applyVetoLogicAlwaysOn(cfg, ar) ==
  LET firing == { i \in 1..Len(vetoConditions) : checkVetoCondition(ar, vetoConditions[i]) }
  IN IF firing = {} THEN NotVetoed
     ELSE LET first == CHOOSE i \in firing : \A j \in firing : i <= j
          IN [present |-> TRUE, vetoed |-> TRUE,
              vetoingAgent |-> vetoConditions[first].vetoingAgent,
              vetoReason |-> vetoConditions[first].vetoReason]

applyVetoLogic(cfg, ar) ==
  IF ~cfg.vetoEnabled THEN NotVetoed
  ELSE LET firing == { i \in 1..Len(vetoConditions) : checkVetoCondition(ar, vetoConditions[i]) }
       IN IF firing = {} THEN NotVetoed
          ELSE LET first == CHOOSE i \in firing : \A j \in firing : i <= j
               IN [present |-> TRUE, vetoed |-> TRUE,
                   vetoingAgent |-> vetoConditions[first].vetoingAgent,
                   vetoReason |-> vetoConditions[first].vetoReason]

(***************************************************************************)
(* Phase 5: false-positive registry                                        *)
(***************************************************************************)
\* A registry entry.  The registry is a Map<string, any>: nothing in the
\* code fixes the shape of an entry.  shape "flat" is an entry whose
\* agentPattern is the list of {agent, detection} itself; shape "nested"
\* is an entry whose agentPattern is an object holding that list in a
\* field agentPattern of its own.
Pattern(shape, name, res, geo, ap) ==
  [shape |-> shape, name |-> name, resource |-> res, geology |-> geo, agentPattern |-> ap]

Entry(id, pattern) == [patternId |-> id, pattern |-> pattern]

ExpectedPattern == (Grav :> TRUE) @@ (Spectral :> TRUE) @@ (Quantum :> FALSE)

\* The contents of this.falsePositiveDatabase, in insertion order.  No
\* method of the class writes to the map; its entries come from whoever
\* owns the engine.  The first non-empty registry holds an entry that does
\* not match the candidates followed by one that can, the second one an
\* entry in the flat shape.
Registries ==
  { << >>,
    << Entry("fp-copper", Pattern("nested", "copper halo", "copper", "craton", ExpectedPattern)),
       Entry("fp-gold", Pattern("nested", "gold laterite", "gold", "craton", ExpectedPattern)) >>,
    << Entry("fp-flat", Pattern("flat", "gold laterite", "gold", "craton", ExpectedPattern)) >> }

extractAnomalyFeatures(candidate, ar) ==
  [resource |-> candidate.targetResource,
   geology |-> candidate.geologicalContext,
   agentDetections |-> [n \in DOMAIN ar |-> ar[n].detection]]

Returned(v) == [threw |-> FALSE, value |-> v]

Thrown == [threw |-> TRUE, value |-> Zero]

\* compareAgentPatterns(detections, pattern) is called with the entry's
\* agentPattern and reads pattern.agentPattern.map: on a flat entry that is
\* undefined.map, a TypeError.
compareAgentPatterns(detections, pattern) ==
  IF pattern.shape = "flat" THEN Thrown
  ELSE LET matches == Cardinality({ a \in DOMAIN detections :
                          a \in DOMAIN pattern.agentPattern
                          /\ pattern.agentPattern[a] = detections[a] })
       IN Returned(Div(matches, Cardinality(DOMAIN detections)))

\* 0.3 [resource] + 0.3 [geology] + 0.4 * agentPatternMatch
calculatePatternMatch(features, pattern) ==
  LET base == (IF features.resource = pattern.resource THEN 30 ELSE 0)
              + (IF features.geology = pattern.geology THEN 30 ELSE 0)
      m == compareAgentPatterns(features.agentDetections, pattern)
  IN IF m.threw THEN Thrown
     ELSE IF m.value.nan THEN Returned(NaN)
     ELSE Returned(Rat(base * m.value.den + 40 * m.value.num, 100 * m.value.den))

MatchThreshold == 70

NoFPCheck == [present |-> FALSE, isKnownFP |-> FALSE, patternId |-> "", matchScore |-> Zero]

NotKnownFP == [present |-> TRUE, isKnownFP |-> FALSE, patternId |-> "", matchScore |-> Zero]

RECURSIVE scanRegistry(_, _, _)
scanRegistry(features, db, i) ==
  IF i > Len(db) THEN [threw |-> FALSE, value |-> NotKnownFP]
  ELSE LET matchScore == calculatePatternMatch(features, db[i].pattern)
       IN IF matchScore.threw THEN [threw |-> TRUE, value |-> NoFPCheck]
          ELSE IF GtPercent(matchScore.value, MatchThreshold)
               THEN [threw |-> FALSE,
                     value |-> [present |-> TRUE, isKnownFP |-> TRUE,
                                patternId |-> db[i].patternId,
                                matchScore |-> matchScore.value]]
          ELSE scanRegistry(features, db, i + 1)

checkFalsePositiveDatabase(db, candidate, ar) ==
  scanRegistry(extractAnomalyFeatures(candidate, ar), db, 1)

(***************************************************************************)
(* ConsensusResult and the synchronous tail of evaluateWithConsensus       *)
(***************************************************************************)
NoMap == [present |-> FALSE, map |-> EmptyMap]

Map(ar) == [present |-> TRUE, map |-> ar]

ConsensusResult(det, conf, cons, agr, veto, ar, fp, qr) ==
  [detection |-> det, confidence |-> conf, consensus |-> cons, agentAgreement |-> agr,
   vetoStatus |-> veto, agentResults |-> ar, falsePositiveCheck |-> fp,
   qualityReport |-> qr, timestamp |-> TRUE]

NoResult ==
  [detection |-> FALSE, confidence |-> Zero, consensus |-> Zero, agentAgreement |-> Zero,
   vetoStatus |-> NoVeto, agentResults |-> NoMap, falsePositiveCheck |-> NoFPCheck,
   qualityReport |-> NoQualityReport, timestamp |-> FALSE]

\* lines 1145-1152: the result returned when the quality gate fails
qualityFailedResult(qr) ==
  ConsensusResult(FALSE, Zero, Zero, Zero, NoVeto, NoMap, NoFPCheck, qr)

\* lines 1221-1228: the result returned by the catch block
catchResult ==
  ConsensusResult(FALSE, Zero, Zero, Zero, NoVeto, Map(EmptyMap), NoFPCheck, NoQualityReport)

\* a catch block that logs and rethrows
catchBlockRethrow == [outcome |-> "threw", result |-> NoResult]

\* lines 1219-1229: the catch block turns every exception of the try block
\* into a returned result
catchBlock == [outcome |-> "returned", result |-> catchResult]

\* a tail that consults the registry before the veto rules
finishEvaluationRegistryFirst(ags, cfg, db, cand, qr, ar) ==
  LET consensusMetrics == calculateConsensusMetrics(ags, ar)
      vetoResult == applyVetoLogic(cfg, ar)
      fpCheck == checkFalsePositiveDatabase(db, cand, ar)
      finalConfidence == calculateWeightedConfidence(ar, TRUE, consensusMetrics.agentWeights)
  IN IF fpCheck.threw THEN
       [outcome |-> catchBlock.outcome, terminal |-> "error", push |-> FALSE,
        stages |-> << "consensus", "fp" >>,
        result |-> catchBlock.result]
     ELSE IF fpCheck.value.isKnownFP THEN
       [outcome |-> "returned", terminal |-> "fp_matched", push |-> FALSE,
        stages |-> << "consensus", "fp" >>,
        result |-> ConsensusResult(FALSE, calculateWeightedConfidence(ar, FALSE, EmptyMap),
                     consensusMetrics.rawConsensus, consensusMetrics.agreementRatio,
                     vetoResult, Map(ar), fpCheck.value, qr)]
     ELSE IF vetoResult.vetoed THEN
       [outcome |-> "returned", terminal |-> "vetoed", push |-> FALSE,
        stages |-> << "consensus", "fp", "veto" >>,
        result |-> ConsensusResult(FALSE, calculateWeightedConfidence(ar, FALSE, EmptyMap),
                     consensusMetrics.rawConsensus, consensusMetrics.agreementRatio,
                     vetoResult, Map(ar), NoFPCheck, qr)]
     ELSE
       [outcome |-> "returned", terminal |-> "fused", push |-> TRUE,
        stages |-> << "consensus", "fp", "veto", "fusion" >>,
        result |-> ConsensusResult(GeqPercent(finalConfidence, cfg.confidenceThreshold),
                     finalConfidence,
                     consensusMetrics.rawConsensus, consensusMetrics.agreementRatio,
                     NoVeto, Map(ar), NoFPCheck, qr)]

\* Phases 3 to 7 (lines 1158-1217), run without suspension once
\* runAgentEvaluations has returned ar.  push tells whether the result is
\* appended to consensusHistory.
finishEvaluation(ags, cfg, db, cand, qr, ar) ==
  LET consensusMetrics == calculateConsensusMetrics(ags, ar)
      vetoResult == applyVetoLogic(cfg, ar)
      fpCheck == checkFalsePositiveDatabase(db, cand, ar)
      finalConfidence == calculateWeightedConfidence(ar, TRUE, consensusMetrics.agentWeights)
  IN IF vetoResult.vetoed THEN
       [outcome |-> "returned", terminal |-> "vetoed", push |-> FALSE,
        stages |-> << "consensus", "veto" >>,
        result |-> ConsensusResult(FALSE, calculateWeightedConfidence(ar, FALSE, EmptyMap),
                     consensusMetrics.rawConsensus, consensusMetrics.agreementRatio,
                     vetoResult, Map(ar), NoFPCheck, qr)]
     ELSE IF fpCheck.threw THEN
       [outcome |-> catchBlock.outcome, terminal |-> "error", push |-> FALSE,
        stages |-> << "consensus", "veto", "fp" >>,
        result |-> catchBlock.result]
     ELSE IF fpCheck.value.isKnownFP THEN
       [outcome |-> "returned", terminal |-> "fp_matched", push |-> FALSE,
        stages |-> << "consensus", "veto", "fp" >>,
        result |-> ConsensusResult(FALSE, calculateWeightedConfidence(ar, FALSE, EmptyMap),
                     consensusMetrics.rawConsensus, consensusMetrics.agreementRatio,
                     NoVeto, Map(ar), fpCheck.value, qr)]
     ELSE
       [outcome |-> "returned", terminal |-> "fused", push |-> TRUE,
        stages |-> << "consensus", "veto", "fp", "fusion" >>,
        result |-> ConsensusResult(GeqPercent(finalConfidence, cfg.confidenceThreshold),
                     finalConfidence,
                     consensusMetrics.rawConsensus, consensusMetrics.agreementRatio,
                     NoVeto, Map(ar), NoFPCheck, qr)]

\* a write at the last index instead of an append
historyPushInPlace(history, r) ==
  IF history = << >> THEN << r >> ELSE [history EXCEPT ![Len(history)] = r]

\* this.consensusHistory.push(result)
historyPush(history, r) == Append(history, r)

\* getConsensusStatistics (null on an empty history)
getConsensusStatistics(history) ==
  LET total == Len(history)
      vetoes == Cardinality({ i \in 1..total :
                   history[i].vetoStatus.present /\ history[i].vetoStatus.vetoed })
  IN [isNull |-> total = 0, totalEvaluations |-> total, vetoRate |-> Div(vetoes, total)]

(***************************************************************************)
(* State                                                                   *)
(***************************************************************************)
VARIABLES
  agents,                 \* this.agents, in insertion order
  config,                 \* this.config
  consensusHistory,       \* this.consensusHistory
  falsePositiveDatabase,  \* this.falsePositiveDatabase, in insertion order
  pc,                     \* "idle", "awaiting" (suspended in runAgentEvaluations), "done"
  candidate,              \* the candidate of the evaluation
  qualityReport,          \* local qualityReport
  task,                   \* per detector: its evaluate call
  timer,                  \* per detector: the setTimeout of runAgentWithTimeout
  promise,                \* per detector: the promise of runAgentWithTimeout
  agentResults,           \* local agentResults of runAgentEvaluations
  result,                 \* the value evaluateWithConsensus returned
  outcome,                \* "none", "returned" or "threw"
  calls,                  \* per detector: number of evaluate invocations
  timedOut,               \* per detector: its timer fired while the promise was pending
  stages,                 \* the stages entered, in order
  terminal,               \* the stage that ended the evaluation
  completed,              \* number of evaluations that have returned
  invocations,            \* the locals of each of several calls in progress at once
  satelliteData,          \* the satelliteData argument of the evaluation
  lastCall,               \* the last call of registerAgent or removeAgent
  connectedClients,       \* real-time service: socket id -> its campaigns list
  rooms,                  \* real-time service: socket id -> the campaign rooms it is in
  activeCampaigns,        \* real-time service: campaign id -> subscribers
  intervals               \* real-time service: simulator.intervals

vars == << agents, config, consensusHistory, falsePositiveDatabase, pc, candidate,
           qualityReport, task, timer, promise, agentResults, result, outcome,
           calls, timedOut, stages, terminal, completed, invocations,
           satelliteData, lastCall, connectedClients, rooms, activeCampaigns,
           intervals >>

\* The state of the real-time service
serviceVars == << connectedClients, rooms, activeCampaigns, intervals >>

Pending == [state |-> "pending", value |-> NoValue, reason |-> ""]

NoPromise == [state |-> "none", value |-> NoValue, reason |-> ""]

Fulfilled(v) == [state |-> "fulfilled", value |-> v, reason |-> ""]

Rejected(why) == [state |-> "rejected", value |-> NoValue, reason |-> why]

IsSettled(p) == p.state \in {"fulfilled", "rejected"}

\* a promise whose later resolve / reject replaces an earlier settlement
settleOverwrite(p, q) == q

\* resolve / reject of a promise: only the first call has an effect
settle(p, q) == IF p.state = "pending" THEN q ELSE p

\* clearTimeout: cancels a timer that has not fired
clearTimeout(t) == IF t = "armed" THEN "cleared" ELSE t

DefaultConsensusThreshold == 85

DefaultConfidenceThreshold == 70

DefaultMaxProcessingTime == 300000

\* The object literal of the constructor before the spread of its argument.
\* Thresholds are percentages, maxProcessingTime is in milliseconds.
defaultConfig ==
  [consensusThreshold |-> DefaultConsensusThreshold, vetoEnabled |-> TRUE,
   confidenceThreshold |-> DefaultConfidenceThreshold,
   maxProcessingTime |-> DefaultMaxProcessingTime, parallelExecution |-> TRUE]

\* constructor(config: Partial<ConsensusConfig>): this.config is the defaults
\* overridden by every field the argument has.  partial is a function from
\* the field names it has to their values.  The constructor has no other
\* statement: it returns for every argument.
constructor(partial) ==
  [f \in DOMAIN defaultConfig |-> IF f \in DOMAIN partial THEN partial[f] ELSE defaultConfig[f]]

Configs ==
  { constructor(("vetoEnabled" :> v) @@ ("parallelExecution" :> p)) : v \in BOOLEAN, p \in BOOLEAN }

\* A call of registerAgent or removeAgent: the name it is about, whether the name was
\* registered before the call, and how the call ended.
MethodCall(op, name, dup, out) ==
  [op |-> op, name |-> name, duplicate |-> dup, outcome |-> out]

NoMethodCall == MethodCall("none", "", FALSE, "none")

\* The real-time service after start-up: no client, no campaign, no timer.
InitService ==
  /\ connectedClients = << >>
  /\ rooms = << >>
  /\ activeCampaigns = << >>
  /\ intervals = << >>

\* The locals of evaluateWithConsensus and of the orchestrator before the
\* first call.
InitEvaluation ==
  /\ consensusHistory = << >>
  /\ satelliteData = NoSnapshot
  /\ lastCall = NoMethodCall
  /\ pc = "idle"
  /\ candidate = Candidate("", "")
  /\ qualityReport = NoQualityReport
  /\ task = [a \in AgentPool |-> "idle"]
  /\ timer = [a \in AgentPool |-> "unset"]
  /\ promise = [a \in AgentPool |-> NoPromise]
  /\ agentResults = EmptyMap
  /\ result = NoResult
  /\ outcome = "none"
  /\ calls = [a \in AgentPool |-> 0]
  /\ timedOut = [a \in AgentPool |-> FALSE]
  /\ stages = << >>
  /\ terminal = "none"
  /\ completed = 0

Init ==
  /\ agents \in AgentSetups
  /\ config \in Configs
  /\ falsePositiveDatabase \in Registries
  /\ InitEvaluation
  /\ InitService
  /\ invocations = << >>

(***************************************************************************)
(* Phase 2: the orchestrator (runAgentEvaluations, runAgentWithTimeout)    *)
(***************************************************************************)
IndexOf(ags, n) == CHOOSE i \in 1..Len(ags) : ags[i].name = n

\* The detectors whose evaluate is invoked before the first suspension:
\* all of them in parallel mode, the first of the Map in sequential mode.
firstBatch(cfg, ags) ==
  IF cfg.parallelExecution THEN Names(ags)
  ELSE IF Len(ags) = 0 THEN {} ELSE { ags[1].name }

\* a task boundary without the catch: the promise's value is used as it is
taskBoundaryNoCatch(n, p) == p.value

\* The value the task boundary (try/catch around the await of
\* runAgentWithTimeout) yields for detector n once its promise p is settled.
taskBoundary(n, p) == IF p.state = "fulfilled" THEN p.value ELSE FailedResult(n)

\* a join that is passed as soon as one task has settled (Promise.race)
joinPassedOnFirst(ags, pr) == Names(ags) = {} \/ \E n \in Names(ags) : IsSettled(pr[n])

\* Promise.all over the task promises: the join is passed when every one of
\* them is settled.
joinPassed(ags, pr) == \A n \in Names(ags) : IsSettled(pr[n])

\* a collection step that keeps only the entries of fulfilled promises
collectResultsFulfilledOnly(ags, pr) ==
  [n \in { m \in Names(ags) : pr[m].state = "fulfilled" } |-> pr[n].value]

\* results.forEach(({name, result}) => agentResults[name] = result)
collectResults(ags, pr) ==
  [n \in { m \in Names(ags) : IsSettled(pr[m]) } |-> taskBoundary(n, pr[n])]

\* runAgentWithTimeout for every detector of batch: the timer is armed, then
\* evaluate is invoked; an evaluate that throws synchronously rejects the
\* promise from inside the executor and leaves the timer armed.
launch(batch, throwers) ==
  /\ task' = [a \in AgentPool |->
               IF a \in batch THEN (IF a \in throwers THEN "threw" ELSE "running") ELSE task[a]]
  /\ timer' = [a \in AgentPool |-> IF a \in batch THEN "armed" ELSE timer[a]]
  /\ promise' = [a \in AgentPool |->
                  IF a \in batch THEN (IF a \in throwers THEN Rejected("error") ELSE Pending)
                  ELSE promise[a]]
  /\ calls' = [a \in AgentPool |-> IF a \in batch THEN calls[a] + 1 ELSE calls[a]]

\* evaluateWithConsensus up to its first suspension, called with a snapshot
\* of snaps: quality gate, then the launch of the detectors.
startWith(snaps) ==
  /\ pc = "idle"
  /\ \E c \in Candidates, d \in snaps :
       LET qr == performDataQualityCheck(d) IN
         /\ candidate' = c
         /\ satelliteData' = d
         /\ qualityReport' = qr
         /\ IF ~qr.pass
            THEN /\ result' = qualityFailedResult(qr)
                 /\ outcome' = "returned"
                 /\ terminal' = "quality_failed"
                 /\ stages' = << "quality" >>
                 /\ pc' = "done"
                 /\ completed' = completed + 1
                 /\ UNCHANGED << task, timer, promise, calls >>
            ELSE /\ \E throwers \in SUBSET firstBatch(config, agents) :
                      launch(firstBatch(config, agents), throwers)
                 /\ stages' = << "quality", "detectors" >>
                 /\ pc' = "awaiting"
                 /\ UNCHANGED << result, outcome, terminal, completed >>
  /\ UNCHANGED << serviceVars, lastCall, invocations, agents, config, consensusHistory,
                  falsePositiveDatabase, agentResults, timedOut >>

StartEvaluation == startWith(Snapshots)

\* The detector's evaluate promise fulfils with one of the results of outs:
\* clearTimeout, resolve.
resolveWith(outs) ==
  \E a \in AgentPool, o \in outs :
    /\ task[a] = "running"
    /\ task' = [task EXCEPT ![a] = "resolved"]
    /\ timer' = [timer EXCEPT ![a] = clearTimeout(timer[a])]
    /\ promise' = [promise EXCEPT ![a] = settle(promise[a], Fulfilled(AgentResultOf(a, o)))]
    /\ UNCHANGED << serviceVars, lastCall, satelliteData, invocations >>
    /\ UNCHANGED << agents, config, consensusHistory, falsePositiveDatabase, pc, candidate,
                    qualityReport, agentResults, result, outcome, calls, timedOut,
                    stages, terminal, completed >>

AgentResolve == resolveWith(AgentOutputs)

\* The detector's evaluate promise rejects: clearTimeout, reject.
AgentReject ==
  \E a \in AgentPool :
    /\ task[a] = "running"
    /\ task' = [task EXCEPT ![a] = "rejected"]
    /\ timer' = [timer EXCEPT ![a] = clearTimeout(timer[a])]
    /\ promise' = [promise EXCEPT ![a] = settle(promise[a], Rejected("error"))]
    /\ UNCHANGED << serviceVars, lastCall, satelliteData, invocations >>
    /\ UNCHANGED << agents, config, consensusHistory, falsePositiveDatabase, pc, candidate,
                    qualityReport, agentResults, result, outcome, calls, timedOut,
                    stages, terminal, completed >>

\* a timer callback that only logs: the promise stays as it is
TimerFireLogOnly ==
  \E a \in AgentPool :
    /\ timer[a] = "armed"
    /\ timer' = [timer EXCEPT ![a] = "fired"]
    /\ UNCHANGED << serviceVars, lastCall, satelliteData, invocations >>
    /\ UNCHANGED << agents, config, consensusHistory, falsePositiveDatabase, pc, candidate,
                    qualityReport, task, promise, agentResults, result, outcome, calls,
                    timedOut, stages, terminal, completed >>

\* maxProcessingTime has elapsed: the timer callback rejects the promise.
TimerFire ==
  \E a \in AgentPool :
    /\ timer[a] = "armed"
    /\ timer' = [timer EXCEPT ![a] = "fired"]
    /\ timedOut' = [timedOut EXCEPT ![a] = (promise[a].state = "pending")]
    /\ promise' = [promise EXCEPT ![a] = settle(promise[a], Rejected("timeout"))]
    /\ UNCHANGED << serviceVars, lastCall, satelliteData, invocations >>
    /\ UNCHANGED << agents, config, consensusHistory, falsePositiveDatabase, pc, candidate,
                    qualityReport, task, agentResults, result, outcome, calls,
                    stages, terminal, completed >>

\* Sequential mode: the continuation of the await inside the for loop
\* stores the entry of the current detector and moves to the next one.
SeqAdvance ==
  /\ pc = "awaiting"
  /\ ~config.parallelExecution
  /\ \E a \in Names(agents) :
       /\ calls[a] > 0
       /\ a \notin DOMAIN agentResults
       /\ IsSettled(promise[a])
       /\ agentResults' = (a :> taskBoundary(a, promise[a])) @@ agentResults
       /\ IF IndexOf(agents, a) < Len(agents)
          THEN LET next == { agents[IndexOf(agents, a) + 1].name } IN
                 \E throwers \in SUBSET next : launch(next, throwers)
          ELSE UNCHANGED << task, timer, promise, calls >>
  /\ UNCHANGED << serviceVars, lastCall, satelliteData, invocations >>
  /\ UNCHANGED << agents, config, consensusHistory, falsePositiveDatabase, pc, candidate,
                  qualityReport, result, outcome, timedOut, stages, terminal, completed >>

\* runAgentEvaluations is ready to return: the join is passed (parallel) or
\* the loop has run over every detector (sequential).
orchestratorReady ==
  IF config.parallelExecution THEN joinPassed(agents, promise)
  ELSE \A n \in Names(agents) : n \in DOMAIN agentResults

\* The continuation of the await in evaluateWithConsensus: runAgentEvaluations
\* returns its map and phases 3 to 7 run to the return statement.
ResumeEvaluation ==
  /\ pc = "awaiting"
  /\ orchestratorReady
  /\ LET ar == IF config.parallelExecution THEN collectResults(agents, promise)
               ELSE agentResults
         fin == finishEvaluation(agents, config, falsePositiveDatabase, candidate,
                                 qualityReport, ar)
     IN /\ agentResults' = ar
        /\ result' = fin.result
        /\ outcome' = fin.outcome
        /\ terminal' = fin.terminal
        /\ stages' = stages \o fin.stages
        /\ consensusHistory' = IF fin.push THEN historyPush(consensusHistory, fin.result)
                                ELSE consensusHistory
  /\ pc' = "done"
  /\ completed' = completed + 1
  /\ UNCHANGED << serviceVars, lastCall, satelliteData, invocations >>
  /\ UNCHANGED << agents, config, falsePositiveDatabase, candidate, qualityReport,
                  task, timer, promise, calls, timedOut >>

Next ==
  \/ StartEvaluation
  \/ AgentResolve
  \/ AgentReject
  \/ TimerFire
  \/ SeqAdvance
  \/ ResumeEvaluation

Spec == Init /\ [][Next]_vars

(***************************************************************************)
(* Engines built with arguments of the constructor that are out of range   *)
(***************************************************************************)
\* Arguments of the constructor: none, an execution mode, and thresholds or
\* a time limit outside their documented ranges (1.5, -0.1, -1 ms).
PartialConfigs ==
  { << >>,
    ("parallelExecution" :> FALSE),
    ("confidenceThreshold" :> 150),
    ("confidenceThreshold" :> 0 - 10) @@ ("vetoEnabled" :> FALSE),
    ("consensusThreshold" :> 150) @@ ("parallelExecution" :> FALSE),
    ("maxProcessingTime" :> 0 - 1) }

\* Two pluggable detectors; the BaseAgent constructor takes any number as
\* priority, here 0 and -1.
WeightSetups ==
  { << Agent(Seepage, 0), Agent(Grav, 2) >>,
    << Agent(Seepage, 0 - 1), Agent(Grav, 2) >> }

InitConfig ==
  /\ agents \in WeightSetups
  /\ config \in { constructor(p) : p \in PartialConfigs }
  /\ falsePositiveDatabase = << >>
  /\ InitEvaluation
  /\ InitService
  /\ invocations = << >>

SpecConfig == InitConfig /\ [][Next]_vars

(***************************************************************************)
(* The engine of api/consensus/route.ts: the three detectors with          *)
(* priorities 2, 2 and 3 and the default thresholds.                       *)
(***************************************************************************)
RouteSetup == << Agent(Grav, 2), Agent(Spectral, 2), Agent(Quantum, 3) >>

\* What the three detectors may answer here: detections with confidence
\* 0.9, 0.8, 0.85 and 1.0 and no uncertainty, the 0.85 one also with a
\* failing physics report of residual 1.2, and a non-detection.
RouteOutputs ==
  { Output(TRUE, 90, 0, NullData, NoPhysics, "detector"),
    Output(TRUE, 80, 0, NullData, NoPhysics, "detector"),
    Output(TRUE, 85, 0, NullData, NoPhysics, "detector"),
    Output(TRUE, 85, 0, NullData, Physics(FALSE, 120), "detector"),
    Output(TRUE, 100, 0, NullData, NoPhysics, "detector"),
    Output(FALSE, 30, 20, NullData, NoPhysics, "detector") }

InitRoute ==
  /\ agents = RouteSetup
  /\ config \in { constructor(("parallelExecution" :> p)) : p \in BOOLEAN }
  /\ falsePositiveDatabase = << >>
  /\ InitEvaluation
  /\ InitService
  /\ invocations = << >>

RouteResolve == resolveWith(RouteOutputs)

NextRoute ==
  \/ StartEvaluation
  \/ RouteResolve
  \/ AgentReject
  \/ TimerFire
  \/ SeqAdvance
  \/ ResumeEvaluation

SpecRoute == InitRoute /\ [][NextRoute]_vars

(***************************************************************************)
(* Several calls of evaluateWithConsensus in progress on one engine.  Each *)
(* call has its own locals (a record of invocations); this.agents,         *)
(* this.config, this.falsePositiveDatabase and this.consensusHistory are   *)
(* the engine's.  A call runs without interruption from one await to the   *)
(* next: each action below is one such run.                                *)
(***************************************************************************)
MaxCalls == 2

CallIds == 1..MaxCalls

\* one registered detector: every call has one task to wait for
ConcurrentSetup == << Agent(Grav, 2) >>

\* What the detectors may answer here: a detection or a non-detection.
ConcurrentOutputs ==
  { Output(TRUE, 90, 0, NullData, NoPhysics, "detector"),
    Output(FALSE, 30, 20, NullData, NoPhysics, "detector") }

\* The locals of a call that has not started; appended is the length of
\* consensusHistory right after the call's push (0: the call has not pushed),
\* overlapped tells that another call was waiting for its detectors when
\* this one was entered.
NoCall ==
  [pc |-> "idle", candidate |-> Candidate("", ""), qualityReport |-> NoQualityReport,
   task |-> [a \in AgentPool |-> "idle"], timer |-> [a \in AgentPool |-> "unset"],
   promise |-> [a \in AgentPool |-> NoPromise], agentResults |-> EmptyMap,
   result |-> NoResult, outcome |-> "none", terminal |-> "none", appended |-> 0,
   overlapped |-> FALSE]

InitConcurrent ==
  /\ agents = ConcurrentSetup
  /\ config \in { constructor(("parallelExecution" :> p)) : p \in BOOLEAN }
  /\ falsePositiveDatabase = << >>
  /\ InitEvaluation
  /\ InitService
  /\ invocations = [e \in CallIds |-> NoCall]

engineUnchanged ==
  UNCHANGED << serviceVars, lastCall, satelliteData, agents, config,
               falsePositiveDatabase, pc, candidate, qualityReport, task,
               timer, promise, agentResults, result, outcome, calls, timedOut, stages,
               terminal, completed >>

\* runAgentWithTimeout for every detector of batch, in the locals c
launchIn(c, batch) ==
  [c EXCEPT !.task = [a \in AgentPool |-> IF a \in batch THEN "running" ELSE c.task[a]],
            !.timer = [a \in AgentPool |-> IF a \in batch THEN "armed" ELSE c.timer[a]],
            !.promise = [a \in AgentPool |-> IF a \in batch THEN Pending ELSE c.promise[a]]]

\* Call e from its entry to its first await (or to the return of a failed
\* quality gate).
CallStart(e) ==
  /\ invocations[e].pc = "idle"
  /\ \E d \in Snapshots :
       LET qr == performDataQualityCheck(d)
           c == [invocations[e] EXCEPT
                   !.candidate = Candidate("gold", "craton"),
                   !.qualityReport = qr,
                   !.overlapped = \E f \in CallIds \ {e} : invocations[f].pc = "awaiting"]
       IN invocations' = [invocations EXCEPT ![e] =
            IF ~qr.pass
            THEN [c EXCEPT !.result = qualityFailedResult(qr), !.outcome = "returned",
                           !.terminal = "quality_failed", !.pc = "done"]
            ELSE [launchIn(c, firstBatch(config, agents)) EXCEPT !.pc = "awaiting"]]
  /\ UNCHANGED consensusHistory
  /\ engineUnchanged

CallAgentResolve(e) ==
  /\ \E a \in AgentPool, o \in ConcurrentOutputs :
       /\ invocations[e].task[a] = "running"
       /\ invocations' = [invocations EXCEPT
            ![e].task[a] = "resolved",
            ![e].timer[a] = clearTimeout(@),
            ![e].promise[a] = settle(@, Fulfilled(AgentResultOf(a, o)))]
  /\ UNCHANGED consensusHistory
  /\ engineUnchanged

CallAgentReject(e) ==
  /\ \E a \in AgentPool :
       /\ invocations[e].task[a] = "running"
       /\ invocations' = [invocations EXCEPT
            ![e].task[a] = "rejected",
            ![e].timer[a] = clearTimeout(@),
            ![e].promise[a] = settle(@, Rejected("error"))]
  /\ UNCHANGED consensusHistory
  /\ engineUnchanged

CallTimerFire(e) ==
  /\ \E a \in AgentPool :
       /\ invocations[e].timer[a] = "armed"
       /\ invocations' = [invocations EXCEPT
            ![e].timer[a] = "fired",
            ![e].promise[a] = settle(@, Rejected("timeout"))]
  /\ UNCHANGED consensusHistory
  /\ engineUnchanged

\* Sequential mode: the continuation of the await inside the for loop.
CallSeqAdvance(e) ==
  /\ invocations[e].pc = "awaiting"
  /\ ~config.parallelExecution
  /\ \E a \in Names(agents) :
       /\ invocations[e].task[a] # "idle"
       /\ a \notin DOMAIN invocations[e].agentResults
       /\ IsSettled(invocations[e].promise[a])
       /\ LET c == [invocations[e] EXCEPT
                      !.agentResults = (a :> taskBoundary(a, invocations[e].promise[a])) @@ @]
          IN invocations' = [invocations EXCEPT ![e] =
               IF IndexOf(agents, a) < Len(agents)
               THEN launchIn(c, { agents[IndexOf(agents, a) + 1].name })
               ELSE c]
  /\ UNCHANGED consensusHistory
  /\ engineUnchanged

callReady(e) ==
  IF config.parallelExecution THEN joinPassed(agents, invocations[e].promise)
  ELSE \A n \in Names(agents) : n \in DOMAIN invocations[e].agentResults

\* what the continuation does with the outcome fin of phases 3 to 7
completeCall(e, ar, fin) ==
  /\ consensusHistory' = IF fin.push THEN historyPush(consensusHistory, fin.result)
                          ELSE consensusHistory
  /\ invocations' = [invocations EXCEPT ![e] =
       [@ EXCEPT !.agentResults = ar, !.result = fin.result, !.outcome = fin.outcome,
                 !.terminal = fin.terminal, !.pc = "done",
                 !.appended = IF fin.push THEN Len(consensusHistory') ELSE 0]]
  /\ engineUnchanged

\* a continuation that answers no detection once the history holds a
\* detection
CallResumeHistoryBiased(e) ==
  /\ invocations[e].pc = "awaiting"
  /\ callReady(e)
  /\ LET ar == IF config.parallelExecution
               THEN collectResults(agents, invocations[e].promise)
               ELSE invocations[e].agentResults
         fin == finishEvaluation(agents, config, falsePositiveDatabase,
                                 invocations[e].candidate, invocations[e].qualityReport, ar)
         seen == \E i \in 1..Len(consensusHistory) : consensusHistory[i].detection
     IN completeCall(e, ar, IF seen THEN [fin EXCEPT !.result.detection = FALSE] ELSE fin)

\* The continuation of the await of runAgentEvaluations in call e: phases 3
\* to 7 up to the return.
CallResume(e) ==
  /\ invocations[e].pc = "awaiting"
  /\ callReady(e)
  /\ LET ar == IF config.parallelExecution
               THEN collectResults(agents, invocations[e].promise)
               ELSE invocations[e].agentResults
         fin == finishEvaluation(agents, config, falsePositiveDatabase,
                                 invocations[e].candidate, invocations[e].qualityReport, ar)
     IN completeCall(e, ar, fin)

NextConcurrent ==
  \E e \in CallIds :
    \/ CallStart(e)
    \/ CallAgentResolve(e)
    \/ CallAgentReject(e)
    \/ CallTimerFire(e)
    \/ CallSeqAdvance(e)
    \/ CallResume(e)

SpecConcurrent == InitConcurrent /\ [][NextConcurrent]_vars

(***************************************************************************)
(* One evaluation under the scheduling of the event loop                   *)
(***************************************************************************)
\* The engines of the fair specification: no detector or two detectors, in
\* both execution modes, with the veto rules on and an empty registry.
InitFair ==
  /\ agents \in { ags \in AgentSetups : Len(ags) <= 2 }
  /\ config \in { constructor("parallelExecution" :> p) : p \in BOOLEAN }
  /\ falsePositiveDatabase = << >>
  /\ InitEvaluation
  /\ InitService
  /\ invocations = << >>

\* What the JavaScript event loop guarantees: a timer that is armed fires
\* (setTimeout), and a continuation whose awaited promise is settled runs
\* (the microtask queue).  Nothing is assumed about the detectors: no
\* fairness on AgentResolve or AgentReject, an evaluate call may stay pending
\* for ever.
Fairness ==
  /\ WF_vars(TimerFire)
  /\ WF_vars(SeqAdvance)
  /\ WF_vars(ResumeEvaluation)

SpecFair == InitFair /\ [][Next]_vars /\ Fairness

(***************************************************************************)
(* The quality gate over every snapshot                                    *)
(***************************************************************************)
\* Every combination of the channels the quality helpers read
AllSnapshots ==
  { Snapshot(opt, s2, s1, lt, srtm) :
      opt \in BOOLEAN, s2 \in BOOLEAN, s1 \in BOOLEAN, lt \in BOOLEAN, srtm \in BOOLEAN }

\* An engine with one detector, in both execution modes
InitQuality ==
  /\ agents = << Agent(Grav, 2) >>
  /\ config \in { constructor("parallelExecution" :> p) : p \in BOOLEAN }
  /\ falsePositiveDatabase = << >>
  /\ InitEvaluation
  /\ InitService
  /\ invocations = << >>

QualityStart == startWith(AllSnapshots)

NextQuality ==
  \/ QualityStart
  \/ AgentResolve
  \/ AgentReject
  \/ TimerFire
  \/ SeqAdvance
  \/ ResumeEvaluation

SpecQuality == InitQuality /\ [][NextQuality]_vars

(***************************************************************************)
(* Engines over the range of confidenceThreshold                           *)
(***************************************************************************)
\* Values of confidenceThreshold in [0, 1]: 0, 0.1, the default and 1
ThresholdConfigs ==
  { constructor(("confidenceThreshold" :> t) @@ ("parallelExecution" :> p)) :
      t \in {0, 10, DefaultConfidenceThreshold, 100}, p \in BOOLEAN }

\* Engines with no detector or with two detectors
InitThreshold ==
  /\ agents \in { ags \in AgentSetups : Len(ags) <= 2 }
  /\ config \in ThresholdConfigs
  /\ falsePositiveDatabase = << >>
  /\ InitEvaluation
  /\ InitService
  /\ invocations = << >>

SpecThreshold == InitThreshold /\ [][Next]_vars

(***************************************************************************)
(* Registration of detectors                                               *)
(***************************************************************************)
\* The priorities of the detectors that are registered
Priorities == {2, 3}

\* The state of an engine that the registration methods do not touch
evaluationVars ==
  << config, consensusHistory, falsePositiveDatabase, pc, candidate, qualityReport,
     task, timer, promise, agentResults, result, outcome, calls, timedOut, stages,
     terminal, completed, invocations, satelliteData >>

\* Map.prototype.set on this.agents: a new key is added at the end of the
\* insertion order, an existing key keeps its place and gets the new value.
mapSet(ags, agent) ==
  IF IsRegistered(ags, agent.name)
  THEN [i \in 1..Len(ags) |-> IF ags[i].name = agent.name THEN agent ELSE ags[i]]
  ELSE Append(ags, agent)

\* Map.prototype.delete on this.agents
mapDelete(ags, n) == SelectSeq(ags, LAMBDA a : a.name # n)

\* registerAgent(agent): this.agents.set(name, agent), then a log line.
registerAgent(agent) ==
  /\ agents' = mapSet(agents, agent)
  /\ lastCall' = MethodCall("registerAgent", agent.name,
                            IsRegistered(agents, agent.name), "returned")

\* removeAgent(agentName): this.agents.delete(agentName), then a log line.
removeAgent(agentName) ==
  /\ agents' = mapDelete(agents, agentName)
  /\ lastCall' = MethodCall("removeAgent", agentName,
                            IsRegistered(agents, agentName), "returned")

RegisterAgent ==
  /\ \E n \in AgentPool, p \in Priorities : registerAgent(Agent(n, p))
  /\ UNCHANGED << evaluationVars, serviceVars >>

RemoveAgent ==
  /\ \E n \in AgentPool : removeAgent(n)
  /\ UNCHANGED << evaluationVars, serviceVars >>

\* An engine as the constructor leaves it: no detector registered.
InitRegister ==
  /\ agents = << >>
  /\ config = constructor(<< >>)
  /\ falsePositiveDatabase = << >>
  /\ InitEvaluation
  /\ InitService
  /\ invocations = << >>

NextRegister ==
  \/ RegisterAgent
  \/ RemoveAgent

SpecRegister == InitRegister /\ [][NextRegister]_vars

(***************************************************************************)
(* The real-time service: campaign subscriptions over socket.io            *)
(***************************************************************************)
\* Socket ids of the clients and campaign ids
Sockets == {"s1", "s2"}

Campaigns == {"c1", "c2"}

\* Largest length of a client's campaigns list
MaxCampaignList == 3

\* Largest subscriber count of a campaign
MaxSubscribers == 4

\* Map.prototype.delete
without(f, k) == [x \in DOMAIN f \ {k} |-> f[x]]

\* Map.prototype.set
with(f, k, v) == (k :> v) @@ f

\* startCampaignSimulation(campaignId, socket): an interval of the campaign
\* is cleared, a new one is set; the callback keeps the socket.
startCampaignSimulation(ivs, campaignId, socket) == with(ivs, campaignId, socket)

\* stopCampaignSimulation(campaignId): clearInterval and delete, if present
stopCampaignSimulation(ivs, campaignId) == without(ivs, campaignId)

\* The block 'stop simulation if no more subscribers' of the unsubscribe
\* and disconnect handlers, on the pair st of activeCampaigns and intervals.
dropSubscriber(st, campaignId) ==
  IF campaignId \in DOMAIN st.active
  THEN IF st.active[campaignId] - 1 <= 0
       THEN [active |-> without(st.active, campaignId),
             ivs |-> stopCampaignSimulation(st.ivs, campaignId)]
       ELSE [active |-> with(st.active, campaignId, st.active[campaignId] - 1),
             ivs |-> st.ivs]
  ELSE st

\* clientData.campaigns.forEach of the disconnect handler, from index i on
RECURSIVE dropEach(_, _, _)
dropEach(st, list, i) ==
  IF i > Len(list) THEN st ELSE dropEach(dropSubscriber(st, list[i]), list, i + 1)

\* io.on('connection'): the client is recorded with an empty campaigns list
Connect ==
  /\ \E s \in Sockets \ DOMAIN connectedClients :
       /\ connectedClients' = with(connectedClients, s, << >>)
       /\ rooms' = with(rooms, s, {})
  /\ UNCHANGED << activeCampaigns, intervals >>
  /\ UNCHANGED << agents, lastCall, evaluationVars >>

\* socket.on('subscribe_campaign')
SubscribeCampaign ==
  /\ \E s \in DOMAIN connectedClients, c \in Campaigns :
       /\ Len(connectedClients[s]) < MaxCampaignList
       /\ c \in DOMAIN activeCampaigns => activeCampaigns[c] < MaxSubscribers
       /\ rooms' = with(rooms, s, rooms[s] \cup {c})
       /\ connectedClients' = with(connectedClients, s, Append(connectedClients[s], c))
       /\ IF c \notin DOMAIN activeCampaigns
          THEN /\ activeCampaigns' = with(activeCampaigns, c, 1)
               /\ intervals' = startCampaignSimulation(intervals, c, s)
          ELSE /\ activeCampaigns' = with(activeCampaigns, c, activeCampaigns[c] + 1)
               /\ UNCHANGED intervals
  /\ UNCHANGED << agents, lastCall, evaluationVars >>

\* socket.on('unsubscribe_campaign')
UnsubscribeCampaign ==
  /\ \E s \in DOMAIN connectedClients, c \in Campaigns :
       LET st == dropSubscriber([active |-> activeCampaigns, ivs |-> intervals], c) IN
         /\ rooms' = with(rooms, s, rooms[s] \ {c})
         /\ connectedClients' =
              with(connectedClients, s, SelectSeq(connectedClients[s], LAMBDA id : id # c))
         /\ activeCampaigns' = st.active
         /\ intervals' = st.ivs
  /\ UNCHANGED << agents, lastCall, evaluationVars >>

\* socket.on('disconnect'): socket.io has taken the socket out of its rooms;
\* the handler walks the client's campaigns list and forgets the client.
Disconnect ==
  /\ \E s \in DOMAIN connectedClients :
       LET st == dropEach([active |-> activeCampaigns, ivs |-> intervals],
                          connectedClients[s], 1) IN
         /\ rooms' = without(rooms, s)
         /\ connectedClients' = without(connectedClients, s)
         /\ activeCampaigns' = st.active
         /\ intervals' = st.ivs
  /\ UNCHANGED << agents, lastCall, evaluationVars >>

\* The service after start-up, beside an engine that is not used.  The
\* callbacks of the intervals emit messages and change none of the maps.
InitServiceOnly ==
  /\ agents = << >>
  /\ config = constructor(<< >>)
  /\ falsePositiveDatabase = << >>
  /\ InitEvaluation
  /\ InitService
  /\ invocations = << >>

NextService ==
  \/ Connect
  \/ SubscribeCampaign
  \/ UnsubscribeCampaign
  \/ Disconnect

SpecService == InitServiceOnly /\ [][NextService]_vars

(***************************************************************************)
(* Vocabulary of the properties                                            *)
(***************************************************************************)
Done == pc = "done"

PassedGate == qualityReport.present /\ qualityReport.pass

Registered == Names(agents)

SomeRuleFires(ar) == \E i \in 1..Len(vetoConditions) : checkVetoCondition(ar, vetoConditions[i])

Vetoed(r) == r.vetoStatus.present /\ r.vetoStatus.vetoed

KnownFP(r) == r.falsePositiveCheck.present /\ r.falsePositiveCheck.isKnownFP

HasFailed(a) == a \in Registered /\ promise[a].state = "rejected" /\ promise[a].reason = "error"

\* The similarity the pattern matcher is specified to compute for a registry
\* entry, whatever the shape of the entry: 0.3 for an equal target category,
\* 0.3 for an equal context tag, 0.4 times the fraction of detectors whose
\* boolean output equals the expected one.
Similarity(cand, ar, pattern) ==
  LET n == Cardinality(DOMAIN ar)
      m == Cardinality({ a \in DOMAIN ar : a \in DOMAIN pattern.agentPattern
                           /\ pattern.agentPattern[a] = ar[a].detection })
      base == (IF cand.targetResource = pattern.resource THEN 30 ELSE 0)
              + (IF cand.geologicalContext = pattern.geology THEN 30 ELSE 0)
  IN IF n = 0 THEN NaN ELSE Rat(base * n + 40 * m, 100 * n)

\* The fusion formula with the configured priorities as weights:
\* sum over detecting detectors of confidence * (1 - uncertainty) * priority,
\* divided by the sum of all priorities; 0 when that sum is 0.
PriorityFusion(ags, ar) ==
  LET names == DOMAIN ar
      w == [n \in names |-> IF IsRegistered(ags, n) THEN PriorityOf(ags, n) ELSE 1]
      weightedSum == SumOver([n \in names |->
                        (IF ar[n].detection THEN ar[n].confidence ELSE 0)
                        * (100 - ar[n].uncertainty) * w[n]], names)
      totalWeight == SumOver(w, names)
  IN IF totalWeight > 0 THEN Rat(weightedSum, 10000 * totalWeight) ELSE Zero

(***************************************************************************)
(* C1                                                                      *)
(***************************************************************************)
\* C1: whenever vetoEnabled is true and some veto rule fires on the detector
\* results, the evaluation returns detection = false with
\* vetoStatus.vetoed = true, whatever the confidences, weights and
\* agreement are.
C1_VetoForcesNegative ==
  (Done /\ PassedGate /\ config.vetoEnabled /\ SomeRuleFires(agentResults))
    => (result.detection = FALSE /\ Vetoed(result))

\* A vetoed evaluation whose weighted agreement reaches consensusThreshold
\* and whose fused confidence reaches confidenceThreshold.
C1_Witness ==
  /\ Done /\ PassedGate /\ config.vetoEnabled /\ SomeRuleFires(agentResults)
  /\ Vetoed(result)
  /\ GeqPercent(calculateConsensusMetrics(agents, agentResults).weightedConsensus,
                config.consensusThreshold)
  /\ GeqPercent(PriorityFusion(agents, agentResults), config.confidenceThreshold)

C3_GateFailureResult ==
  (Done /\ qualityReport.present /\ ~qualityReport.pass)
    => /\ \A a \in AgentPool : calls[a] = 0
       /\ result.detection = FALSE
       /\ NumEq(result.confidence, Zero)
       /\ NumEq(result.consensus, Zero)
       /\ NumEq(result.agentAgreement, Zero)
       /\ result.agentResults.present
       /\ result.agentResults.map = EmptyMap
       /\ result.qualityReport = qualityReport

(***************************************************************************)
(* C4                                                                      *)
(***************************************************************************)
\* C4: the entry of a detector that had not answered when its timer fired is
\* the synthetic failed result, also after the abandoned detector answers
\* later; the entry of a detector that answered in time is its own result.
C4_TimeoutEntry ==
  \A a \in AgentPool :
    /\ (timedOut[a] /\ a \in DOMAIN agentResults) => agentResults[a] = FailedResult(a)
    /\ (timedOut[a] /\ result.agentResults.present /\ a \in DOMAIN result.agentResults.map)
         => result.agentResults.map[a] = FailedResult(a)
    /\ (~timedOut[a] /\ task[a] = "resolved" /\ a \in DOMAIN agentResults)
         => (promise[a].state = "fulfilled" /\ agentResults[a] = promise[a].value
             /\ agentResults[a].method # "failed")

\* An evaluation has returned a map, one detector timed out and answered
\* late, another one answered in time.
C4_Witness ==
  /\ Done /\ result.agentResults.present
  /\ \E a, b \in DOMAIN result.agentResults.map :
       /\ timedOut[a] /\ task[a] = "resolved"
       /\ ~timedOut[b] /\ task[b] = "resolved"

(***************************************************************************)
(* C5                                                                      *)
(***************************************************************************)
InStages(st) == \E i \in 1..Len(stages) : stages[i] = st

\* C5: when a detector throws or rejects, its entry is the synthetic failed
\* result, the entry of every other detector that answered is the result it
\* returned, and the evaluation goes on through the consensus and veto
\* stages, through the pattern stage unless vetoed, and through fusion
\* unless the veto or the pattern stage ended it; in both execution modes.
C5_FailureIsolated ==
  (Done /\ PassedGate) =>
    \A a \in Registered :
      HasFailed(a) =>
        /\ a \in DOMAIN agentResults
        /\ agentResults[a] = FailedResult(a)
        /\ \A b \in Registered \ {a} :
             promise[b].state = "fulfilled"
               => (b \in DOMAIN agentResults /\ agentResults[b] = promise[b].value)
        /\ InStages("consensus") /\ InStages("veto")
        /\ (~applyVetoLogic(config, agentResults).vetoed => InStages("fp"))
        /\ \/ terminal = "vetoed" /\ Vetoed(result)
           \/ terminal = "fp_matched" /\ KnownFP(result)
           \/ terminal = "fused" /\ InStages("fusion")
           \/ terminal = "error"
                /\ checkFalsePositiveDatabase(falsePositiveDatabase, candidate, agentResults).threw

\* A sequential evaluation in which one detector threw synchronously, one
\* rejected and one answered, and which went on to fusion.
C5_Witness ==
  /\ Done /\ PassedGate /\ ~config.parallelExecution /\ terminal = "fused"
  /\ \E a, b, c \in Registered :
       /\ HasFailed(a) /\ task[a] = "threw"
       /\ HasFailed(b) /\ task[b] = "rejected"
       /\ promise[c].state = "fulfilled" /\ result.agentResults.map[c] = promise[c].value

(***************************************************************************)
(* C6                                                                      *)
(***************************************************************************)
\* C6: in an evaluation that passes the quality gate every registered
\* detector's evaluate is invoked exactly once, and the map the orchestrator
\* returns has exactly one entry per registered detector, keyed by its name.
C6_OneEntryPerDetector ==
  /\ \A a \in AgentPool : calls[a] <= 1
  /\ (Done /\ PassedGate) =>
       /\ \A a \in AgentPool : calls[a] = (IF a \in Registered THEN 1 ELSE 0)
       /\ DOMAIN agentResults = Registered

\* Three registered detectors, one failed, one timed out, one answered.
C6_Witness ==
  /\ Done /\ PassedGate /\ Cardinality(Registered) = 3
  /\ \E a, b, c \in Registered :
       HasFailed(a) /\ timedOut[b] /\ promise[c].state = "fulfilled"

(***************************************************************************)
(* C7                                                                      *)
(***************************************************************************)
\* C7: the orchestrator has returned its map only if every detector task has
\* settled (fulfilled, rejected or timed out); no task is still pending
\* when the evaluation goes on.
C7_FullBarrier ==
  (pc = "done" /\ PassedGate) =>
    \A n \in Registered : IsSettled(promise[n]) /\ n \in DOMAIN agentResults

\* A parallel evaluation of three detectors that settled in three ways.
C7_Witness ==
  /\ Done /\ PassedGate /\ config.parallelExecution /\ Cardinality(Registered) = 3
  /\ \E a, b, c \in Registered :
       /\ promise[a].state = "fulfilled"
       /\ promise[b].reason = "timeout"
       /\ promise[c].reason = "error"

(***************************************************************************)
(* C8                                                                      *)
(***************************************************************************)
\* C8: when an evaluation is neither vetoed nor FP-matched, its confidence
\* is the sum over detecting detectors of confidence * (1 - uncertainty) *
\* priority divided by the sum of all priorities (0 when that sum is 0), and
\* detection is true exactly when that confidence is >= confidenceThreshold.
C8_FusionUsesPriorities ==
  terminal = "fused" =>
    /\ NumEq(result.confidence, PriorityFusion(agents, result.agentResults.map))
    /\ result.detection
         <=> GeqPercent(PriorityFusion(agents, result.agentResults.map),
                        config.confidenceThreshold)

(***************************************************************************)
(* C9                                                                      *)
(***************************************************************************)
\* C9: every evaluation that reaches a terminal state appends exactly one
\* result to the history, so the statistics' total count is the number of
\* completed evaluations and the veto rate is the fraction of evaluations
\* that ended vetoed.
C9_HistoryCountsEvaluations ==
  Done =>
    LET stats == getConsensusStatistics(consensusHistory) IN
      /\ Len(consensusHistory) = completed
      /\ ~stats.isNull
      /\ stats.totalEvaluations = completed
      /\ NumEq(stats.vetoRate, Div(IF terminal = "vetoed" THEN 1 ELSE 0, completed))

(***************************************************************************)
(* C10                                                                     *)
(***************************************************************************)
\* C10: evaluateWithConsensus never propagates an exception: every
\* evaluation, whatever its detectors did and whatever the data were, ends
\* in a returned result; the result is negative with confidence 0 when the
\* data were unfit or every detector failed, and a failed or timed-out
\* detector contributes nothing to the confidence.
C10_NoExceptionEscapes ==
  /\ outcome # "threw"
  /\ Done =>
       /\ outcome = "returned"
       /\ result.timestamp
       /\ ~qualityReport.pass => (result.detection = FALSE /\ NumEq(result.confidence, Zero))
       /\ (PassedGate /\ \A a \in Registered : promise[a].state = "rejected")
            => (result.detection = FALSE /\ NumEq(result.confidence, Zero))
       /\ \A a \in Registered :
            (PassedGate /\ promise[a].state = "rejected")
              => (agentResults[a].detection = FALSE /\ agentResults[a].confidence = 0)

\* An evaluation that returned although one detector threw, one timed out
\* and the pattern lookup raised a TypeError.
C10_Witness ==
  /\ Done /\ outcome = "returned" /\ terminal = "error"
  /\ \E a, b \in Registered : HasFailed(a) /\ timedOut[b]

(***************************************************************************)
(* C11                                                                     *)
(***************************************************************************)
ValidConfig(cfg) ==
  /\ cfg.consensusThreshold \in 0..100
  /\ cfg.confidenceThreshold \in 0..100
  /\ cfg.maxProcessingTime >= 0

ValidWeights(ags) == \A i \in 1..Len(ags) : ags[i].priority >= 0

\* C11: an engine whose thresholds are outside [0,1] or whose time limit or
\* weights are negative is rejected at construction, so no evaluation ever
\* starts on such an engine.
C11_MalformedEngineNeverEvaluates ==
  (pc # "idle") => (ValidConfig(config) /\ ValidWeights(agents))

(***************************************************************************)
(* C12                                                                     *)
(***************************************************************************)
PhysicsRuleHolds(ar) ==
  \E a \in DOMAIN ar :
    /\ ar[a].physicsValidation.present
    /\ (~ar[a].physicsValidation.passesPhysics \/ ar[a].physicsValidation.residualScore > 100)

\* C12: with vetoEnabled = false the veto stage answers {vetoed: false} for
\* every detector result set, also when a detector reports passesPhysics =
\* false or a residual above 1.0; no evaluation ends vetoed, the pattern
\* stage is entered, and the detection is false on a pattern match and
\* confidence >= confidenceThreshold after fusion.
C12_DisabledVetoIsNoOp ==
  (Done /\ PassedGate /\ ~config.vetoEnabled) =>
    /\ applyVetoLogic(config, agentResults) = NotVetoed
    /\ terminal # "vetoed"
    /\ ~Vetoed(result)
    /\ InStages("veto") /\ InStages("fp")
    /\ terminal = "fp_matched" => (result.detection = FALSE /\ KnownFP(result))
    /\ terminal = "fused" =>
         (result.detection <=> GeqPercent(result.confidence, config.confidenceThreshold))

\* A positive result of an engine with the veto disabled although a detector
\* reported failing physics with residual 1.2 and a veto rule's predicates
\* hold.
C12_Witness ==
  /\ Done /\ PassedGate /\ ~config.vetoEnabled
  /\ PhysicsRuleHolds(agentResults) /\ SomeRuleFires(agentResults)
  /\ terminal = "fused" /\ result.detection

(***************************************************************************)
(* C13                                                                     *)
(***************************************************************************)
\* Rule i fires on ar: its primary predicate holds and it has no secondary
\* predicate or the secondary predicate holds too.
RuleFires(i, ar) ==
  LET rule == vetoConditions[i]
      r == { ar[n] : n \in DOMAIN ar }
  IN /\ conditionChecks(rule.primaryCondition, r)
     /\ (rule.secondaryCondition = "" \/ conditionChecks(rule.secondaryCondition, r))

\* C13: with the veto enabled, a rule is found to fire exactly when its
\* primary predicate holds on the full result map and its secondary
\* predicate, if it has one, holds too; the evaluation is vetoed exactly when
\* some rule fires, and the recorded vetoingAgent and reason are those of
\* the first rule of the list that fires.
C13_FirstFiringRuleWins ==
  (Done /\ PassedGate /\ config.vetoEnabled) =>
    /\ \A i \in 1..Len(vetoConditions) :
         checkVetoCondition(agentResults, vetoConditions[i]) <=> RuleFires(i, agentResults)
    /\ Vetoed(result) <=> \E i \in 1..Len(vetoConditions) : RuleFires(i, agentResults)
    /\ Vetoed(result) =>
         \E i \in 1..Len(vetoConditions) :
           /\ RuleFires(i, agentResults)
           /\ \A j \in 1..(i - 1) : ~RuleFires(j, agentResults)
           /\ result.vetoStatus.vetoingAgent = vetoConditions[i].vetoingAgent
           /\ result.vetoStatus.vetoReason = vetoConditions[i].vetoReason

\* The second, third and fifth rule fire, the first does not, and the record
\* is the second rule's.
C13_Witness ==
  /\ Done /\ PassedGate /\ config.vetoEnabled
  /\ ~RuleFires(1, agentResults)
  /\ RuleFires(2, agentResults) /\ RuleFires(3, agentResults) /\ RuleFires(5, agentResults)
  /\ result.vetoStatus.vetoingAgent = vetoConditions[2].vetoingAgent

(***************************************************************************)
(* C14                                                                     *)
(***************************************************************************)
Detection(conf) == Output(TRUE, conf, 0, NullData, NoPhysics, "detector")

\* Scenario A: the three detectors detect with confidences 0.9, 0.8 and
\* 0.85 (in some order), uncertainty 0, weights 2, 2 and 3.
ScenarioA(ags, ar) ==
  /\ ags = RouteSetup
  /\ DOMAIN ar = Names(ags)
  /\ \E cG, cS, cQ \in {90, 80, 85} :
       /\ {cG, cS, cQ} = {90, 80, 85}
       /\ ar[Grav] = AgentResultOf(Grav, Detection(cG))
       /\ ar[Spectral] = AgentResultOf(Spectral, Detection(cS))
       /\ ar[Quantum] = AgentResultOf(Quantum, Detection(cQ))

\* Scenario B: Scenario A, but one detector also reports a structural
\* validation with passes = false and residual 1.2.
ScenarioB(ags, ar) ==
  /\ ags = RouteSetup
  /\ DOMAIN ar = Names(ags)
  /\ \E a \in Names(ags) :
       LET plain == [ar EXCEPT ![a].physicsValidation = NoPhysics]
       IN ar[a].physicsValidation = Physics(FALSE, 120) /\ ScenarioA(ags, plain)

\* C14: in Scenario B the result has detected = false and vetoStatus.vetoed
\* = true, and the rule recorded as firing is the residual-threshold rule
\* (residual > 1.0).
C14_ScenarioBResidualRule ==
  (Done /\ PassedGate /\ config.vetoEnabled /\ ScenarioB(agents, agentResults)) =>
    /\ result.detection = FALSE
    /\ Vetoed(result)
    /\ result.vetoStatus.vetoReason = "Model violates physical laws at this location"
    /\ result.vetoStatus.vetoingAgent = "QuantumInversionAgent"

\* C14 as amended: in Scenario B the result has detected = false and
\* vetoStatus.vetoed = true, and the rule recorded as firing is the
\* physics-violation rule (passes = false), which precedes the
\* residual-threshold rule in the list.
C14_ScenarioBPhysicsRule ==
  (Done /\ PassedGate /\ config.vetoEnabled /\ ScenarioB(agents, agentResults)) =>
    /\ result.detection = FALSE
    /\ Vetoed(result)
    /\ result.vetoStatus.vetoReason
         = "Anomaly violates physics constraints for this geological province"
    /\ result.vetoStatus.vetoingAgent = "PhysicsValidationAgent"

\* Scenario B has been evaluated and vetoed; both the physics-violation rule
\* and the residual rule hold on its results.
C14_Witness ==
  /\ Done /\ PassedGate /\ config.vetoEnabled /\ ScenarioB(agents, agentResults)
  /\ Vetoed(result)
  /\ RuleFires(3, agentResults) /\ RuleFires(5, agentResults)

(***************************************************************************)
(* C15                                                                     *)
(***************************************************************************)
NoneDetected(ar) == \A a \in DOMAIN ar : ~ar[a].detection

\* C15: when no detector result has detection = true, also when no detector
\* is registered, the raw agreement the consensus calculator reports and the
\* result carries is the number 0, never the outcome of a division by zero.
C15_NoDetectionZeroAgreement ==
  (Done /\ PassedGate /\ NoneDetected(agentResults)) =>
    /\ ~calculateConsensusMetrics(agents, agentResults).rawConsensus.nan
    /\ NumEq(calculateConsensusMetrics(agents, agentResults).rawConsensus, Zero)
    /\ terminal \in {"vetoed", "fp_matched", "fused"}
         => (~result.consensus.nan /\ NumEq(result.consensus, Zero))

(***************************************************************************)
(* C16                                                                     *)
(***************************************************************************)
\* the unordered pairs of detectors whose detection flags are equal
EqualPairs(ar) ==
  { pr \in SUBSET (DOMAIN ar) :
      Cardinality(pr) = 2 /\ \A a, b \in pr : ar[a].detection = ar[b].detection }

\* C16: agreementRatio is the number of unordered detector pairs with equal
\* detection flags divided by C(n,2), and 1 when n <= 1.
C16_AgreementRatio ==
  (Done /\ PassedGate) =>
    LET n == Cardinality(DOMAIN agentResults)
        ratio == calculateConsensusMetrics(agents, agentResults).agreementRatio
    IN /\ n <= 1 => (~ratio.nan /\ NumEq(ratio, Rat(1, 1)))
       /\ n >= 2 => (~ratio.nan
                      /\ NumEq(ratio, Rat(Cardinality(EqualPairs(agentResults)),
                                          (n * (n - 1)) \div 2)))
       /\ terminal \in {"vetoed", "fp_matched", "fused"}
            => NumEq(result.agentAgreement, ratio)

(***************************************************************************)
(* C17                                                                     *)
(***************************************************************************)
\* C17: no evaluation returns detection = true while its consensus is below
\* config.consensusThreshold, whichever agreement value is taken as the
\* consensus: the raw agreement the result carries, the weighted agreement,
\* or the pairwise agreement ratio.
C17_DetectionNeedsConsensus ==
  (Done /\ result.detection) =>
    \/ GeqPercent(result.consensus, config.consensusThreshold)
    \/ GeqPercent(calculateConsensusMetrics(agents, agentResults).weightedConsensus,
                  config.consensusThreshold)
    \/ GeqPercent(result.agentAgreement, config.consensusThreshold)

(***************************************************************************)
(* C18                                                                     *)
(***************************************************************************)
CallDone(e) == invocations[e].pc = "done"

\* the inputs of a call: candidate, data snapshot (through its quality
\* report) and what the detectors answered, failures and timeouts included
SameInputs(c1, c2) ==
  /\ c1.candidate = c2.candidate
  /\ c1.qualityReport = c2.qualityReport
  /\ c1.agentResults = c2.agentResults

OutcomeOf(r) ==
  << r.detection, r.confidence, r.consensus, r.agentAgreement, r.vetoStatus,
     r.falsePositiveCheck >>

Appenders == { e \in CallIds : invocations[e].appended > 0 }

\* C19: with several calls in progress on one engine, the history holds one
\* entry per push performed, each call's push is at a position of its own
\* and holds that call's result, every finished call has returned a result
\* built from its own detectors' answers, and a waiting call can always go
\* on (its detectors have settled or one of its own timers is armed).
C19_AppendsSerialized ==
  /\ Len(consensusHistory) = Cardinality(Appenders)
  /\ \A e \in Appenders :
       /\ invocations[e].appended \in 1..Len(consensusHistory)
       /\ consensusHistory[invocations[e].appended] = invocations[e].result
  /\ \A e1, e2 \in Appenders :
       e1 # e2 => invocations[e1].appended # invocations[e2].appended
  /\ \A e \in CallIds :
       /\ CallDone(e) =>
            /\ invocations[e].outcome = "returned"
            /\ (invocations[e].terminal = "fused") <=> (e \in Appenders)
            /\ invocations[e].result.agentResults.present =>
                 /\ invocations[e].result.agentResults.map = invocations[e].agentResults
                 /\ \A a \in Names(agents) :
                      invocations[e].agentResults[a]
                        = taskBoundary(a, invocations[e].promise[a])
       /\ invocations[e].pc = "awaiting" =>
            \/ callReady(e)
            \/ \E a \in Names(agents) :
                 IsSettled(invocations[e].promise[a])
                 \/ invocations[e].timer[a] = "armed"

\* Two calls that overlapped have both pushed, the one entered second
\* first, and the two entries differ.
C19_Witness ==
  \E e1, e2 \in CallIds :
    /\ CallDone(e1) /\ CallDone(e2)
    /\ ~invocations[e1].overlapped /\ invocations[e2].overlapped
    /\ invocations[e2].appended = 1 /\ invocations[e1].appended = 2
    /\ consensusHistory[1] # consensusHistory[2]
    /\ Len(consensusHistory) = 2

(***************************************************************************)
(* C20                                                                     *)
(***************************************************************************)
\* C20: in Scenario A, with the quality gate passed, no veto, no pattern
\* match and confidenceThreshold 0.7, the result has detected = true and a
\* confidence between 0.8 and 0.9.
C20_ScenarioA ==
  (Done /\ PassedGate /\ ScenarioA(agents, agentResults)
     /\ config.confidenceThreshold = DefaultConfidenceThreshold) =>
    /\ terminal = "fused"
    /\ result.detection = TRUE
    /\ GeqPercent(result.confidence, 80)
    /\ ~GtPercent(result.confidence, 90)

\* Scenario A has been evaluated with the confidences 0.9, 0.8 and 0.85 on
\* the detectors of weight 2, 2 and 3, in this order: confidence 5.95 / 7.
C20_Witness ==
  /\ Done /\ PassedGate /\ ScenarioA(agents, agentResults)
  /\ agentResults[Grav].confidence = 90
  /\ agentResults[Spectral].confidence = 80
  /\ agentResults[Quantum].confidence = 85
  /\ result.detection
  /\ NumEq(result.confidence, Rat(595, 700))

(***************************************************************************)
(* C21                                                                     *)
(***************************************************************************)
\* The fields of a result object that are set.  detection, confidence,
\* consensus and agentAgreement are written by every return statement of
\* evaluateWithConsensus; the others depend on the statement.
FullyPopulated(r) ==
  /\ r.timestamp
  /\ r.agentResults.present
  /\ r.qualityReport.present

\* C21: the result returned at the terminal state of every evaluation,
\* whichever stage ended it, contains detected, confidence, rawAgreement,
\* the agreement metric, the per-detector result map, the quality report
\* and a timestamp.
C21_TerminalResultFullyPopulated ==
  (Done /\ outcome = "returned") => FullyPopulated(result)

(***************************************************************************)
(* C22                                                                     *)
(***************************************************************************)
StageOrder == << "quality", "detectors", "consensus", "veto", "fp", "fusion" >>

IsPrefix(s, t) == Len(s) <= Len(t) /\ \A i \in 1..Len(s) : s[i] = t[i]

\* Some registry entry scores more than 0.7 against the evaluation.
PatternWouldMatch ==
  \E i \in 1..Len(falsePositiveDatabase) :
    GtPercent(Similarity(candidate, agentResults, falsePositiveDatabase[i].pattern),
              MatchThreshold)

\* C22: the stages are entered in the order quality check, detector run,
\* consensus, veto check, FP check, fusion; the FP check is entered only by
\* evaluations that are not vetoed and fusion only by evaluations without a
\* matching pattern; when a veto rule fires and a pattern would match too the
\* result is the vetoed one; no result has both vetoStatus.vetoed = true and
\* falsePositiveCheck.isKnownFP = true.
C22_StageOrder ==
  Done =>
    /\ IsPrefix(stages, StageOrder)
    /\ InStages("fp") => ~applyVetoLogic(config, agentResults).vetoed
    /\ InStages("fusion") => ~PatternWouldMatch
    /\ (PassedGate /\ applyVetoLogic(config, agentResults).vetoed /\ PatternWouldMatch)
         => (terminal = "vetoed" /\ Vetoed(result) /\ ~KnownFP(result))
    /\ ~(Vetoed(result) /\ KnownFP(result))

\* A vetoed evaluation whose candidate and detector outputs score more than
\* 0.7 against an entry of the registry: the FP check was not entered.
C22_Witness ==
  /\ Done /\ PassedGate
  /\ applyVetoLogic(config, agentResults).vetoed
  /\ PatternWouldMatch
  /\ terminal = "vetoed"
  /\ stages = << "quality", "detectors", "consensus", "veto" >>
  /\ Vetoed(result) /\ ~KnownFP(result)

(***************************************************************************)
(* C23                                                                     *)
(***************************************************************************)
\* C23: every evaluation eventually returns.  Provided the timers that are
\* armed eventually fire, an evaluation that waits for its detectors reaches
\* its terminal state even if some or all of the evaluate calls never
\* settle.
C23_EventuallyReturns == (pc = "awaiting") ~> (pc = "done")

\* An evaluation has returned while the evaluate call of a detector is still
\* pending: the detector was timed out and has the synthetic entry.
C23_Witness ==
  /\ Done /\ outcome = "returned"
  /\ \E a \in Registered :
       /\ task[a] = "running"
       /\ timedOut[a]
       /\ agentResults[a] = FailedResult(a)

(***************************************************************************)
(* C24                                                                     *)
(***************************************************************************)
\* The confidence the fusion stage computes for the detector results ar:
\* calculateWeightedConfidence with consensusMetrics.agentWeights.
FusionConfidence(ags, ar) ==
  calculateWeightedConfidence(ar, TRUE, calculateConsensusMetrics(ags, ar).agentWeights)

\* C24: the confidence of a vetoed or FP-suppressed result is the value the
\* fusion formula yields for the same detector results with the same
\* per-detector weights: the confidence the evaluation would have reported
\* had it not been suppressed.
C24_SuppressedConfidenceIsFusion ==
  (Done /\ terminal \in {"vetoed", "fp_matched"})
    => NumEq(result.confidence, FusionConfidence(agents, agentResults))

(***************************************************************************)
(* C25                                                                     *)
(***************************************************************************)
\* C25: no detector task outlives its evaluation.  Once
\* evaluateWithConsensus has returned, no evaluate call it started is still
\* running (and so none can complete afterwards).
C25_NoTaskOutlivesEvaluation ==
  Done => \A a \in AgentPool : task[a] # "running"

(***************************************************************************)
(* C26                                                                     *)
(***************************************************************************)
\* C26: registering a detector whose identity is already registered
\* surfaces as an exception; the call is not accepted silently by replacing
\* the detector registered before.
C26_DuplicateRegistrationThrows ==
  (lastCall.op = "registerAgent" /\ lastCall.duplicate) => lastCall.outcome = "threw"

(***************************************************************************)
(* C27                                                                     *)
(***************************************************************************)
\* C27: every snapshot without an optical channel, the snapshot without any
\* channel included, passes the quality gate with an overall score of at
\* least 0.775; the gate fails only for snapshots with an optical channel.
C27_NonOpticalPassesGate ==
  /\ (qualityReport.present /\ ~satelliteData.optical)
       => /\ qualityReport.pass
          /\ qualityReport.overallQualityScore >= 7750
          /\ terminal # "quality_failed"
  /\ terminal = "quality_failed" => satelliteData.optical

\* The snapshot without any channel has been checked: score 0.775, and the
\* detectors have been launched.
C27_Witness ==
  /\ satelliteData = NoSnapshot
  /\ qualityReport.present
  /\ qualityReport.overallQualityScore = 7750
  /\ qualityReport.pass
  /\ pc = "awaiting"

(***************************************************************************)
(* C28                                                                     *)
(***************************************************************************)
\* The pattern has the candidate's target category and its context tag.
BothMatch(cand, pattern) ==
  cand.targetResource = pattern.resource /\ cand.geologicalContext = pattern.geology

\* More than a quarter of the detectors of ar have the boolean output the
\* pattern expects of them.
MoreThanQuarter(ar, pattern) ==
  4 * Cardinality({ a \in DOMAIN ar : a \in DOMAIN pattern.agentPattern
                      /\ pattern.agentPattern[a] = ar[a].detection })
    > Cardinality(DOMAIN ar)

Subscribers(c) == { s \in DOMAIN connectedClients : c \in rooms[s] }

TimerRunning(c) == c \in DOMAIN intervals

SubscriberCount(c) == IF c \in DOMAIN activeCampaigns THEN activeCampaigns[c] ELSE 0

\* C30: after any sequence of subscribe_campaign, unsubscribe_campaign and
\* disconnect events of any number of clients, the simulation timer of a
\* campaign is running if and only if a connected client is subscribed to
\* the campaign, and the subscriber count of the campaign is the number of
\* these clients.
C30_TimerIffSubscribed ==
  \A c \in Campaigns :
    /\ TimerRunning(c) <=> Subscribers(c) # {}
    /\ SubscriberCount(c) = Cardinality(Subscribers(c))

====
